---- MODULE Spec2Model ----
(***************************************************************************)
(* Model of the Plaid proxy routes of spirit-cat:                          *)
(*   - router.get('/transactions'): the cursor-paginated transactionsSync  *)
(*     loop, the "8 most recent" post-processing and the JSON response;    *)
(*   - router.get('/assets') with getAssetReportWithRetries: the recursive *)
(*     promise/setTimeout polling helper;                                  *)
(*   - router.use('/') error handler, prettyPrintResponse, formatError.    *)
(* Each action is one run-to-completion step of the Node event loop: the   *)
(* code executed from the settlement of one awaited promise (or the firing *)
(* of one timer) up to the next await, microtask continuations included.   *)
(***************************************************************************)
EXTENDS Integers, Sequences, FiniteSets, TLC

\* ------------------------------------------------------------------ bounds

\* Largest number of transactionsSync pages the provider answers in a run.
MaxPages == 3

\* Largest retriesLeft, besides the default, a poll is started with.
MaxAttempts == 3

\* Largest number of pages answered to each of two concurrent syncs.
MaxConcPages == 2

\* Largest retriesLeft each of two concurrent polls is started with.
MaxConcAttempts == 2

\* assetReportGet calls followed in a poll whose budget never reaches 1
MaxPollCalls == 4

\* Link successes (calls of onSuccess) followed
MaxLinkSuccesses == 2

\* ------------------------------------------------------- program constants

\* retriesLeft = 20 (default parameter of getAssetReportWithRetries)
DefaultRetriesLeft == 20

\* ms = 1000 (default parameter of getAssetReportWithRetries)
DefaultMs == 1000

\* .slice(-8): "Return the 8 most recent transactions"
RecentWindow == 8

\* reject('Ran out of retries while polling for asset report')
RanOutOfRetries == "Ran out of retries while polling for asset report"

\* throw new Error("No access token found")
\* (error.response is undefined: modelled as the empty sequence)
NoAccessTokenError == [message |-> "No access token found", response |-> <<>>]

\* ------------------------------------------------------------- input sets

\* let cursor = null
NullCursor == "null"

\* next_cursor values the provider may issue
Cursors == {"c1", "c2", "c3"}

TxA == [transaction_id |-> "A", date |-> 2]
TxB == [transaction_id |-> "B", date |-> 1]
TxC == [transaction_id |-> "C", date |-> 3]
TxD == [transaction_id |-> "D", date |-> 4]
RefA == [transaction_id |-> "A"]
RefB == [transaction_id |-> "B"]

\* The added/modified/removed parts of a transactionsSync response.
PageBodies ==
  { [added |-> <<>>,         modified |-> <<>>,    removed |-> <<>>],
    [added |-> <<TxA, TxB>>, modified |-> <<>>,    removed |-> <<>>],
    [added |-> <<TxB, TxB>>, modified |-> <<>>,    removed |-> <<>>],
    [added |-> <<>>,         modified |-> <<TxA>>, removed |-> <<>>],
    [added |-> <<>>,         modified |-> <<>>,    removed |-> <<RefB>>],
    [added |-> <<TxA>>,      modified |-> <<TxB>>, removed |-> <<RefA>>],
    [added |-> <<TxC, TxA, TxB, TxD, TxA>>, modified |-> <<>>, removed |-> <<>>] }

\* response.data of client.transactionsSync
Pages ==
  { [added |-> b.added, modified |-> b.modified, removed |-> b.removed,
     has_more |-> h, next_cursor |-> c] :
       b \in PageBodies, h \in BOOLEAN, c \in Cursors }

\* Errors a Plaid client call rejects with: an API error carries
\* error.response (data and status), a transport error has no response.
ClientErrors ==
  { [message |-> "Request failed with status code 400",
     response |-> << [data |-> [error_code |-> "ITEM_LOGIN_REQUIRED"], status |-> 400] >>],
    [message |-> "socket hang up", response |-> <<>>] }

\* response.data of client.assetReportGet
Reports == {42, 7}

\* retriesLeft values getAssetReportWithRetries is started with
PollBudgets == (1..MaxAttempts) \cup {DefaultRetriesLeft}

\* window.localStorage.getItem(AUTH_TOKEN): null, the empty string or a token
NullToken == "null"
AuthTokens == {NullToken, "", "jwt-1"}

\* public_token values Link hands to onSuccess
PublicTokens == {"public-1", "public-2"}

\* answers of fetch(.../api/plaid/set_access_token): status and response.ok
FetchResponses == { [status |-> 200, ok |-> TRUE],
                    [status |-> 400, ok |-> FALSE],
                    [status |-> 500, ok |-> FALSE] }

\* bodies response.json() resolves with
ExchangeData == { [item_id |-> "item-1"], [item_id |-> "item-2"] }

\* retriesLeft values of any sign: the parameter is not validated
AnyBudgets == {-1, 0, 1, 2}

\* ms values getAssetReportWithRetries is started with
PollDelays == {DefaultMs, 250}

\* ------------------------------------------------------------------ state

VARIABLES
  txPc,          \* /transactions: "idle", "findOne", "sync", "done", "error"
  token,         \* let token
  cursor,        \* let cursor
  added,         \* let added
  modified,      \* let modified
  removed,       \* let removed
  hasMore,       \* let hasMore
  syncCalls,     \* cursors of the client.transactionsSync requests issued, in order
  pages,         \* response.data of the transactionsSync calls answered, in order
  txResponse,    \* what /transactions sent to its HTTP caller
  consoleLog,    \* values written by console.log, in order
  assetsPc,      \* /assets: "idle", "create", "poll", "pdf", "done", "error"
  pollPc,        \* innermost poll invocation: "none", "attempt", "timer", "settled"
  maxAttempts,   \* retriesLeft of the outermost getAssetReportWithRetries call
  ms,            \* ms of the poll
  retriesLeft,   \* retriesLeft of the innermost getAssetReportWithRetries call
  promise,       \* promise[k]: the Promise returned by the k-th nested call
  getCalls,      \* number of plaidClient.assetReportGet requests issued
  attempts,      \* outcomes of the assetReportGet calls answered, in order
  attemptError,  \* reason handed to the .catch callback (which ignores it)
  delays,        \* ms of each setTimeout timer that has fired, in order
  unhandled,     \* rejections no handler was attached to
  getResponse,   \* const getResponse of /assets (sequence: empty until assigned)
  assetsResponse, \* what /assets sent to its HTTP caller
  cancel,        \* the /assets caller's cancellation signal (request closed)
  runs,          \* runs[i]: the locals of the i-th of two concurrent invocations
  linkPc,        \* onSuccess: "idle", "returned", "fetch", "json", "done", "failed"
  linkCalls,     \* what each onSuccess call saw: token, isPaymentInitiation, public_token
  exchangeRequests,  \* set_access_token requests sent by fetch, in order
  exchangeResponses, \* answers of those requests (a rejected fetch included), in order
  dispatched,    \* state objects of the SET_STATE actions dispatched, in order
  pushed         \* number of window.history.pushState calls

syncVars == <<txPc, token, cursor, added, modified, removed, hasMore,
              syncCalls, pages, txResponse>>
pollVars == <<assetsPc, pollPc, maxAttempts, ms, retriesLeft, promise, getCalls,
              attempts, attemptError, delays, unhandled, getResponse, assetsResponse>>
linkVars == <<linkPc, linkCalls, exchangeRequests, exchangeResponses,
              dispatched, pushed>>
envVars == <<cancel, runs, linkVars>>
vars == <<syncVars, pollVars, consoleLog, envVars>>

NoResponse == [kind |-> "none", latest_transactions |-> <<>>, error |-> <<>>]

\* ------------------------------------------------------- shared helpers

\* prettyPrintResponse with the console.log call removed
prettyPrintResponse_Silent(log, response) == log

\* prettyPrintResponse: console.log(util.inspect(response.data, ...))
prettyPrintResponse(log, response) == Append(log, response.data)

\* formatError: { error: { ...error.data, status_code: error.status } }
formatError(error) == [data |-> error.data, status_code |-> error.status]

\* router.use('/', function(error, request, response, next)): the response
\* sent for an error handed to next().  With error.response undefined the
\* handler itself throws (TypeError reading .data) before response.json,
\* and Express answers with its default 500 page.
ErrorHandlerResponse(error) ==
  IF error.response = <<>>
    THEN [kind |-> "http500", latest_transactions |-> <<>>, error |-> <<>>]
    ELSE [kind |-> "error_json", latest_transactions |-> <<>>,
          error |-> << formatError(error.response[1]) >>]

\* router.use('/'): what the handler logs before it responds
ErrorHandlerLog(log, error) ==
  IF error.response = <<>> THEN log ELSE prettyPrintResponse(log, error.response[1])

\* ------------------------------------------------- /transactions helpers

\* The operands of concat swapped: part.concat(acc)
concat_Swapped(acc, part) == part \o acc

\* Assignment of the page in place of concatenation: acc = part
concat_Replace(acc, part) == part

\* Array.prototype.concat as used on the accumulators: acc.concat(part)
concat(acc, part) == acc \o part

\* const request = { access_token: token, cursor: cursor }: the cursor sent
RequestCursor(cur) == cur

\* The cursor left at its initial value: the assignment forgotten
NextCursor_NotAdvanced(data) == NullCursor

\* cursor = data.next_cursor
NextCursor(data) == data.next_cursor

\* The loop left after one page whatever the page says
NextHasMore_StopsEarly(data) == FALSE

\* hasMore = data.has_more
NextHasMore(data) == data.has_more

\* const compareTxnsByDateAscending = (a, b) => (a.date > b.date) - (a.date < b.date)
compareTxnsByDateAscending(a, b) ==
  (IF a.date > b.date THEN 1 ELSE 0) - (IF a.date < b.date THEN 1 ELSE 0)

\* Insert x into the sorted sequence s after every element that does not
\* compare greater than x (Array.prototype.sort is stable).
RECURSIVE InsertSorted(_, _)
InsertSorted(s, x) ==
  IF s = <<>> THEN <<x>>
  ELSE IF compareTxnsByDateAscending(s[Len(s)], x) <= 0 THEN Append(s, x)
  ELSE Append(InsertSorted(SubSeq(s, 1, Len(s) - 1), x), s[Len(s)])

\* [...added].sort(compareTxnsByDateAscending)
RECURSIVE sort(_)
sort(s) ==
  IF s = <<>> THEN <<>>
  ELSE InsertSorted(sort(SubSeq(s, 1, Len(s) - 1)), s[Len(s)])

\* .slice(0, n) in place of .slice(-n): the first n elements
sliceLast_First(s, n) == IF Len(s) <= n THEN s ELSE SubSeq(s, 1, n)

\* .slice(-n): the last n elements (all of them when there are fewer)
sliceLast(s, n) == IF Len(s) <= n THEN s ELSE SubSeq(s, Len(s) - n + 1, Len(s))

\* const recently_added = [...added].sort(compareTxnsByDateAscending).slice(-8)
recently_added(addedAll) == sliceLast(sort(addedAll), RecentWindow)

\* ------------------------------------------------- /transactions actions

\* router.get('/transactions', requireToken, ...): the request passed
\* requireToken; the async function runs up to await AccessToken.findOne.
GetTransactions ==
  /\ txPc = "idle"
  /\ txPc' = "findOne"
  /\ UNCHANGED <<token, cursor, added, modified, removed, hasMore, syncCalls,
                 pages, txResponse, consoleLog, pollVars, envVars>>

\* AccessToken.findOne resolved with a row: token is set, the cursor and the
\* accumulators are initialised, the loop is entered (hasMore = true) and
\* the first client.transactionsSync request is issued.
FindOneFound ==
  /\ txPc = "findOne"
  /\ \E t \in {"access-sandbox-1"} :
       /\ token' = t
       /\ cursor' = NullCursor
       /\ added' = <<>>
       /\ modified' = <<>>
       /\ removed' = <<>>
       /\ hasMore' = TRUE
       /\ syncCalls' = Append(syncCalls, RequestCursor(NullCursor))
       /\ txPc' = "sync"
  /\ UNCHANGED <<pages, txResponse, consoleLog, pollVars, envVars>>

\* The null check left out: the loop is entered without a token.
FindOneMissing_Proceeds ==
  /\ txPc = "findOne"
  /\ cursor' = NullCursor
  /\ added' = <<>>
  /\ modified' = <<>>
  /\ removed' = <<>>
  /\ hasMore' = TRUE
  /\ syncCalls' = Append(syncCalls, RequestCursor(NullCursor))
  /\ txPc' = "sync"
  /\ UNCHANGED <<token, pages, txResponse, consoleLog, pollVars, envVars>>

\* AccessToken.findOne resolved with null: throw new Error("No access token
\* found"), caught by .catch(next) and handled by router.use('/').
FindOneMissing ==
  /\ txPc = "findOne"
  /\ txPc' = "error"
  /\ txResponse' = ErrorHandlerResponse(NoAccessTokenError)
  /\ consoleLog' = ErrorHandlerLog(consoleLog, NoAccessTokenError)
  /\ UNCHANGED <<token, cursor, added, modified, removed, hasMore, syncCalls,
                 pages, pollVars, envVars>>

\* await client.transactionsSync(request) resolved: one pass of the loop body
\* from line 194 to the next await, or to response.json when the loop ends.
TransactionsSyncResolves ==
  /\ txPc = "sync"
  /\ Len(pages) < MaxPages
  /\ \E data \in Pages :
       /\ pages' = Append(pages, data)
       /\ added' = concat(added, data.added)
       /\ modified' = concat(modified, data.modified)
       /\ removed' = concat(removed, data.removed)
       /\ hasMore' = NextHasMore(data)
       /\ cursor' = NextCursor(data)
       /\ consoleLog' = prettyPrintResponse(consoleLog, [data |-> data])
       /\ IF hasMore'
            THEN /\ syncCalls' = Append(syncCalls, RequestCursor(cursor'))
                 /\ txPc' = "sync"
                 /\ UNCHANGED txResponse
            ELSE /\ txResponse' = [kind |-> "json",
                                   latest_transactions |-> recently_added(added'),
                                   error |-> <<>>]
                 /\ txPc' = "done"
                 /\ UNCHANGED syncCalls
  /\ UNCHANGED <<token, pollVars, envVars>>

\* The rejected request issued again instead of giving up.
TransactionsSyncRejects_Retries ==
  /\ txPc = "sync"
  /\ Len(syncCalls) <= MaxPages
  /\ syncCalls' = Append(syncCalls, RequestCursor(cursor))
  /\ UNCHANGED <<txPc, token, cursor, added, modified, removed, hasMore, pages,
                 txResponse, consoleLog, pollVars, envVars>>

\* The rejection caught inside the loop and what was accumulated sent.
TransactionsSyncRejects_SendsPartial ==
  /\ txPc = "sync"
  /\ txResponse' = [kind |-> "json", latest_transactions |-> recently_added(added),
                    error |-> <<>>]
  /\ txPc' = "error"
  /\ UNCHANGED <<token, cursor, added, modified, removed, hasMore, syncCalls,
                 pages, consoleLog, pollVars, envVars>>

\* await client.transactionsSync(request) rejected: the async function
\* rejects, .catch(next) hands the error to router.use('/').
TransactionsSyncRejects ==
  /\ txPc = "sync"
  /\ \E error \in ClientErrors :
       /\ txResponse' = ErrorHandlerResponse(error)
       /\ consoleLog' = ErrorHandlerLog(consoleLog, error)
  /\ txPc' = "error"
  /\ UNCHANGED <<token, cursor, added, modified, removed, hasMore, syncCalls,
                 pages, pollVars, envVars>>

\* ------------------------------------------------------ /assets helpers

\* new Promise((resolve, reject) => ...): a pending promise
Pending == [state |-> "pending", value |-> <<>>, reason |-> <<>>]

\* The exhaustion test off by one: retriesLeft === 0
IsLastRetry_Zero(r) == r = 0

\* The exhaustion test as a threshold: retriesLeft <= 1
IsLastRetry_AtMost(r) == r <= 1

\* if (retriesLeft === 1)
IsLastRetry(r) == r = 1

\* The nested call given retriesLeft - 2
NestedRetries_ByTwo(r) == r - 2

\* the retriesLeft argument of the nested call: retriesLeft - 1
NestedRetries(r) == r - 1

\* The nested call made without .then(resolve): only the innermost promise
\* is fulfilled.
ResolveChain_Unchained(p, v) ==
  [p EXCEPT ![Len(p)] = [state |-> "fulfilled", value |-> <<v>>, reason |-> <<>>]]

\* resolve(response) on the innermost promise; every enclosing promise was
\* chained to it by getAssetReportWithRetries(...).then(resolve), so the
\* value reaches all of them in the same microtask drain.
ResolveChain(p, v) ==
  [k \in 1..Len(p) |-> [state |-> "fulfilled", value |-> <<v>>, reason |-> <<>>]]

\* The .catch callback's own argument passed on: reject(error.message)
RejectInnermost_Underlying(p, why) ==
  [p EXCEPT ![Len(p)] = [state |-> "rejected", value |-> <<>>,
                         reason |-> <<attemptError[1].message>>]]

\* reject(reason) on the innermost promise; the enclosing promises were
\* chained with .then(resolve) only, so none of them is settled by it.
RejectInnermost(p, why) ==
  [p EXCEPT ![Len(p)] = [state |-> "rejected", value |-> <<>>, reason |-> <<why>>]]

\* The rejection of the innermost promise has a handler only when it is the
\* promise the route awaits; the promise derived by .then(resolve) of a
\* nested call rejects with no handler attached.
UnhandledAfterReject(p, u, why) == IF Len(p) > 1 THEN Append(u, why) ELSE u

PollIdle ==
  /\ assetsPc = "idle"
  /\ pollPc = "none"
  /\ maxAttempts = 0
  /\ ms = 0
  /\ retriesLeft = 0
  /\ promise = <<>>
  /\ getCalls = 0
  /\ attempts = <<>>
  /\ attemptError = <<>>
  /\ delays = <<>>
  /\ unhandled = <<>>
  /\ getResponse = <<>>
  /\ assetsResponse = NoResponse

\* No cancellation has been signalled.
NoCancel == [signalled |-> FALSE, during |-> "none", calls |-> 0]

\* The Link component before Link has succeeded.
LinkIdle ==
  /\ linkPc = "idle"
  /\ linkCalls = <<>>
  /\ exchangeRequests = <<>>
  /\ exchangeResponses = <<>>
  /\ dispatched = <<>>
  /\ pushed = 0

EnvIdle == cancel = NoCancel /\ runs = <<>> /\ LinkIdle

SyncIdle ==
  /\ txPc = "idle"
  /\ token = "undefined"
  /\ cursor = "undefined"
  /\ added = <<>>
  /\ modified = <<>>
  /\ removed = <<>>
  /\ hasMore = FALSE
  /\ syncCalls = <<>>
  /\ pages = <<>>
  /\ txResponse = NoResponse

\* One GET /transactions request.
SyncInit == SyncIdle /\ PollIdle /\ EnvIdle /\ consoleLog = <<>>

SyncNext ==
  \/ GetTransactions
  \/ FindOneFound
  \/ FindOneMissing
  \/ TransactionsSyncResolves
  \/ TransactionsSyncRejects

SpecSync == SyncInit /\ [][SyncNext]_vars

\* ------------------------------------------------------- /assets actions

\* router.get('/assets', routeClosed, ...): runs up to
\* await client.assetReportCreate(configs).
GetAssets ==
  /\ assetsPc = "idle"
  /\ assetsPc' = "create"
  /\ UNCHANGED <<pollPc, maxAttempts, ms, retriesLeft, promise, getCalls, attempts,
                 attemptError, delays, unhandled, getResponse, assetsResponse,
                 consoleLog, syncVars, envVars>>

\* assetReportCreate resolved: the response is logged and
\* getAssetReportWithRetries is called; its executor issues the first
\* assetReportGet.  The route passes neither ms nor retriesLeft, so the
\* defaults apply; the other values are the helper's other arguments.
AssetReportCreateResolves ==
  /\ assetsPc = "create"
  /\ \E r \in PollBudgets, d \in PollDelays :
       /\ maxAttempts' = r
       /\ retriesLeft' = r
       /\ ms' = d
  /\ consoleLog' = prettyPrintResponse(consoleLog, [data |-> "asset_report_token"])
  /\ promise' = <<Pending>>
  /\ getCalls' = getCalls + 1
  /\ pollPc' = "attempt"
  /\ assetsPc' = "poll"
  /\ UNCHANGED <<attempts, attemptError, delays, unhandled, getResponse,
                 assetsResponse, syncVars, envVars>>

\* assetReportCreate rejected: .catch(next), router.use('/').
AssetReportCreateRejects ==
  /\ assetsPc = "create"
  /\ \E error \in ClientErrors :
       /\ assetsResponse' = ErrorHandlerResponse(error)
       /\ consoleLog' = ErrorHandlerLog(consoleLog, error)
  /\ assetsPc' = "error"
  /\ UNCHANGED <<pollPc, maxAttempts, ms, retriesLeft, promise, getCalls, attempts,
                 attemptError, delays, unhandled, getResponse, syncVars, envVars>>

\* The same step with the timer of the .catch callback scheduled on success
\* too (as .finally would): the poll goes on after it has resolved.
AssetReportGetResolves_ThenTimer ==
  /\ pollPc = "attempt"
  /\ \E report \in Reports :
       /\ promise' = ResolveChain(promise, report)
       /\ attempts' = Append(attempts, [outcome |-> "resolved", value |-> <<report>>])
  /\ pollPc' = "timer"
  /\ IF promise'[1].state = "fulfilled"
       THEN /\ getResponse' = promise'[1].value
            /\ assetsPc' = "pdf"
       ELSE UNCHANGED <<getResponse, assetsPc>>
  /\ UNCHANGED <<maxAttempts, ms, retriesLeft, getCalls, attemptError, delays,
                 unhandled, assetsResponse, consoleLog, syncVars, envVars>>

\* plaidClient.assetReportGet(request) resolved: .then(resolve) settles the
\* chain of promises; once the promise the route awaits is fulfilled, the
\* await returns the response and the route runs up to
\* await client.assetReportPdfGet.
AssetReportGetResolves ==
  /\ pollPc = "attempt"
  /\ \E report \in Reports :
       /\ promise' = ResolveChain(promise, report)
       /\ attempts' = Append(attempts, [outcome |-> "resolved", value |-> <<report>>])
  /\ pollPc' = "settled"
  /\ IF promise'[1].state = "fulfilled"
       THEN /\ getResponse' = promise'[1].value
            /\ assetsPc' = "pdf"
       ELSE UNCHANGED <<getResponse, assetsPc>>
  /\ UNCHANGED <<maxAttempts, ms, retriesLeft, getCalls, attemptError, delays,
                 unhandled, assetsResponse, consoleLog, syncVars, envVars>>

\* The .catch callback without setTimeout: the exhaustion test and the
\* nested call made at once.
AssetReportGetRejects_RetriesAtOnce ==
  /\ pollPc = "attempt"
  /\ \E error \in ClientErrors : attemptError' = <<error>>
  /\ attempts' = Append(attempts, [outcome |-> "rejected", value |-> <<>>])
  /\ IF IsLastRetry(retriesLeft)
       THEN /\ promise' = RejectInnermost(promise, RanOutOfRetries)
            /\ pollPc' = "settled"
            /\ UNCHANGED <<retriesLeft, getCalls>>
       ELSE /\ promise' = Append(promise, Pending)
            /\ retriesLeft' = NestedRetries(retriesLeft)
            /\ getCalls' = getCalls + 1
            /\ pollPc' = "attempt"
  /\ UNCHANGED <<assetsPc, maxAttempts, ms, delays, unhandled, getResponse,
                 assetsResponse, consoleLog, syncVars, envVars>>

\* plaidClient.assetReportGet(request) rejected: the .catch callback drops
\* the reason and schedules setTimeout(..., ms).
AssetReportGetRejects ==
  /\ pollPc = "attempt"
  /\ \E error \in ClientErrors : attemptError' = <<error>>
  /\ attempts' = Append(attempts, [outcome |-> "rejected", value |-> <<>>])
  /\ pollPc' = "timer"
  /\ UNCHANGED <<assetsPc, maxAttempts, ms, retriesLeft, promise, getCalls, delays,
                 unhandled, getResponse, assetsResponse, consoleLog, syncVars, envVars>>

\* The setTimeout callback runs after ms: with retriesLeft === 1 it rejects
\* the innermost promise and returns; otherwise it makes the nested call
\* (whose executor issues the next assetReportGet) and chains .then(resolve).
\* A rejection of the promise the route awaits goes through .catch(next)
\* to router.use('/'); the reason is a string, so error.response is undefined.
TimerFires ==
  /\ pollPc = "timer"
  /\ delays' = Append(delays, ms)
  /\ IF IsLastRetry(retriesLeft)
       THEN /\ promise' = RejectInnermost(promise, RanOutOfRetries)
            /\ unhandled' = UnhandledAfterReject(promise, unhandled, RanOutOfRetries)
            /\ pollPc' = "settled"
            /\ IF promise'[1].state = "rejected"
                 THEN /\ assetsPc' = "error"
                      /\ assetsResponse' =
                           ErrorHandlerResponse([message |-> promise'[1].reason[1],
                                                 response |-> <<>>])
                 ELSE UNCHANGED <<assetsPc, assetsResponse>>
            /\ UNCHANGED <<retriesLeft, getCalls>>
       ELSE /\ promise' = Append(promise, Pending)
            /\ retriesLeft' = NestedRetries(retriesLeft)
            /\ getCalls' = getCalls + 1
            /\ pollPc' = "attempt"
            /\ UNCHANGED <<unhandled, assetsPc, assetsResponse>>
  /\ UNCHANGED <<maxAttempts, ms, attempts, attemptError, getResponse,
                 consoleLog, syncVars, envVars>>

\* assetReportPdfGet resolved: both responses are logged and the report is
\* sent.
AssetReportPdfGetResolves ==
  /\ assetsPc = "pdf"
  /\ consoleLog' = prettyPrintResponse(
                      prettyPrintResponse(consoleLog, [data |-> getResponse[1]]),
                      [data |-> "pdf"])
  /\ assetsResponse' = [kind |-> "json", latest_transactions |-> <<>>,
                        error |-> <<>>, json |-> getResponse[1], pdf |-> "pdf"]
  /\ assetsPc' = "done"
  /\ UNCHANGED <<pollPc, maxAttempts, ms, retriesLeft, promise, getCalls, attempts,
                 attemptError, delays, unhandled, getResponse, syncVars, envVars>>

\* assetReportPdfGet rejected: .catch(next), router.use('/').
AssetReportPdfGetRejects ==
  /\ assetsPc = "pdf"
  /\ \E error \in ClientErrors :
       /\ assetsResponse' = ErrorHandlerResponse(error)
       /\ consoleLog' = ErrorHandlerLog(consoleLog, error)
  /\ assetsPc' = "error"
  /\ UNCHANGED <<pollPc, maxAttempts, ms, retriesLeft, promise, getCalls, attempts,
                 attemptError, delays, unhandled, getResponse, syncVars, envVars>>

\* One GET /assets request.
PollInit == SyncIdle /\ PollIdle /\ EnvIdle /\ consoleLog = <<>>

PollNext ==
  \/ GetAssets
  \/ AssetReportCreateResolves
  \/ AssetReportCreateRejects
  \/ AssetReportGetResolves
  \/ AssetReportGetRejects
  \/ TimerFires
  \/ AssetReportPdfGetResolves
  \/ AssetReportPdfGetRejects

SpecPoll == PollInit /\ [][PollNext]_vars

\* The caller of /assets gives the request up (the connection is closed)
\* while the poll is under way.  Neither the route nor
\* getAssetReportWithRetries takes a cancellation signal, registers a
\* listener or keeps the setTimeout handle: no program state changes.
CancelSignalled ==
  /\ assetsPc = "poll"
  /\ pollPc \in {"attempt", "timer"}
  /\ ~cancel.signalled
  /\ cancel' = [signalled |-> TRUE, during |-> pollPc, calls |-> getCalls]
  /\ UNCHANGED <<syncVars, pollVars, consoleLog, runs, linkVars>>

\* One GET /assets request whose caller may cancel it.
PollCancelNext ==
  \/ PollNext
  \/ CancelSignalled

SpecPollCancel == PollInit /\ [][PollCancelNext]_vars

\* getAssetReportWithRetries called with a retriesLeft argument of any sign;
\* the executor issues the first assetReportGet as in
\* AssetReportCreateResolves.
AssetReportCreateResolvesAnyBudget ==
  /\ assetsPc = "create"
  /\ \E r \in AnyBudgets, d \in PollDelays :
       /\ maxAttempts' = r
       /\ retriesLeft' = r
       /\ ms' = d
  /\ consoleLog' = prettyPrintResponse(consoleLog, [data |-> "asset_report_token"])
  /\ promise' = <<Pending>>
  /\ getCalls' = getCalls + 1
  /\ pollPc' = "attempt"
  /\ assetsPc' = "poll"
  /\ UNCHANGED <<attempts, attemptError, delays, unhandled, getResponse,
                 assetsResponse, syncVars, envVars>>

\* One GET /assets request whose poll is started with any budget; the poll
\* is followed for MaxPollCalls assetReportGet calls.
PollAnyBudgetNext ==
  \/ GetAssets
  \/ AssetReportCreateResolvesAnyBudget
  \/ AssetReportCreateRejects
  \/ AssetReportGetResolves
  \/ AssetReportGetRejects
  \/ (getCalls < MaxPollCalls /\ TimerFires)
  \/ AssetReportPdfGetResolves
  \/ AssetReportPdfGetRejects

SpecPollAnyBudget == PollInit /\ [][PollAnyBudgetNext]_vars

\* ------------------------------------------------- Link onSuccess actions

\* if (!token): null and the empty string are falsy
NoToken(t) == t = NullToken \/ t = ""

\* The test of response.ok left out: every answer is taken as OK.
ResponseOk_Unchecked(response) == TRUE

\* response.ok, as tested by if (!response.ok)
ResponseOk(response) == response.ok

\* The state object of a SET_STATE action; a field the object does not
\* carry is the empty sequence.
StatePatch == [itemId |-> <<>>, accessToken |-> <<>>, isItemAccess |-> <<>>,
               linkSuccess |-> <<>>]

\* onSuccess(public_token), run to its end: without a stored token it
\* returns at once; otherwise it either dispatches isItemAccess: false
\* (payment initiation) or calls exchangePublicTokenForAccessToken, which
\* runs up to await fetch(...); then linkSuccess: true is dispatched and the
\* history entry pushed.
OnSuccess ==
  /\ linkPc \in {"idle", "returned", "done", "failed"}
  /\ Len(linkCalls) < MaxLinkSuccesses
  /\ \E token0 \in AuthTokens, isPaymentInitiation \in BOOLEAN,
        public_token \in PublicTokens :
       /\ linkCalls' = Append(linkCalls,
                               [token |-> token0,
                                isPaymentInitiation |-> isPaymentInitiation,
                                public_token |-> public_token])
       /\ IF NoToken(token0)
            THEN /\ linkPc' = "returned"
                 /\ UNCHANGED <<exchangeRequests, dispatched, pushed>>
            ELSE /\ IF isPaymentInitiation
                      THEN /\ dispatched' =
                                dispatched \o
                                  << [StatePatch EXCEPT !.isItemAccess = <<FALSE>>],
                                     [StatePatch EXCEPT !.linkSuccess = <<TRUE>>] >>
                           /\ linkPc' = "done"
                           /\ UNCHANGED exchangeRequests
                      ELSE /\ exchangeRequests' =
                                Append(exchangeRequests,
                                       [path |-> "/api/plaid/set_access_token",
                                        authorization |-> token0,
                                        public_token |-> public_token])
                           /\ dispatched' =
                                Append(dispatched,
                                       [StatePatch EXCEPT !.linkSuccess = <<TRUE>>])
                           /\ linkPc' = "fetch"
                 /\ pushed' = pushed + 1
  /\ UNCHANGED <<exchangeResponses, syncVars, pollVars, consoleLog, cancel, runs>>

\* await fetch(...) resolved: a response that is not OK dispatches the
\* placeholders with isItemAccess: false and returns; an OK response runs
\* up to await response.json().
FetchResolves ==
  /\ linkPc = "fetch"
  /\ \E response \in FetchResponses :
       /\ exchangeResponses' = Append(exchangeResponses, response)
       /\ IF ~ResponseOk(response)
            THEN /\ dispatched' =
                      Append(dispatched,
                             [StatePatch EXCEPT
                                !.itemId = <<"no item_id retrieved">>,
                                !.accessToken = <<"no access_token retrieved">>,
                                !.isItemAccess = <<FALSE>>])
                 /\ linkPc' = "done"
            ELSE /\ linkPc' = "json"
                 /\ UNCHANGED dispatched
  /\ UNCHANGED <<linkCalls, exchangeRequests, pushed, syncVars, pollVars,
                 consoleLog, cancel, runs>>

\* await fetch(...) rejected (no answer): the async function's promise is
\* rejected and nothing handles it.
FetchRejects ==
  /\ linkPc = "fetch"
  /\ exchangeResponses' = Append(exchangeResponses, [status |-> 0, ok |-> FALSE])
  /\ linkPc' = "failed"
  /\ UNCHANGED <<linkCalls, exchangeRequests, dispatched, pushed, syncVars,
                 pollVars, consoleLog, cancel, runs>>

\* await response.json() resolved: itemId and isItemAccess: true are
\* dispatched.
JsonResolves ==
  /\ linkPc = "json"
  /\ \E data \in ExchangeData :
       dispatched' = Append(dispatched,
                            [StatePatch EXCEPT !.itemId = <<data.item_id>>,
                                               !.isItemAccess = <<TRUE>>])
  /\ linkPc' = "done"
  /\ UNCHANGED <<linkCalls, exchangeRequests, exchangeResponses, pushed,
                 syncVars, pollVars, consoleLog, cancel, runs>>

\* await response.json() rejected (the body is not JSON): nothing is
\* dispatched.
JsonRejects ==
  /\ linkPc = "json"
  /\ linkPc' = "failed"
  /\ UNCHANGED <<linkCalls, exchangeRequests, exchangeResponses, dispatched,
                 pushed, syncVars, pollVars, consoleLog, cancel, runs>>

\* The Link component: Link succeeds up to MaxLinkSuccesses times, each
\* exchange ending before the next success.
LinkInit == SyncIdle /\ PollIdle /\ EnvIdle /\ consoleLog = <<>>

LinkNext ==
  \/ OnSuccess
  \/ FetchResolves
  \/ FetchRejects
  \/ JsonResolves
  \/ JsonRejects

SpecLink == LinkInit /\ [][LinkNext]_vars

\* One request, to either route.
Init == SyncIdle /\ PollIdle /\ EnvIdle /\ consoleLog = <<>>

Next ==
  \/ (assetsPc = "idle" /\ SyncNext)
  \/ (txPc = "idle" /\ PollNext)

Spec == Init /\ [][Next]_vars

\* ------------------------------------------- two concurrent invocations
\* Two requests of the same route in flight at once.  Every let/const of a
\* route handler and every parameter of getAssetReportWithRetries is local
\* to its invocation (runs[i]); console is the one object both write to.

Invocations == {1, 2}

\* transactionsSync answers given to concurrent syncs
ConcPages ==
  { [added |-> b.added, modified |-> b.modified, removed |-> b.removed,
     has_more |-> h, next_cursor |-> b.next_cursor] :
       b \in { [added |-> <<TxA>>, modified |-> <<TxB>>, removed |-> <<RefA>>,
                next_cursor |-> "c1"],
               [added |-> <<TxB>>, modified |-> <<>>,    removed |-> <<>>,
                next_cursor |-> "c2"] },
       h \in BOOLEAN }

\* A /transactions invocation that has not started.
SyncRunIdle ==
  [kind |-> "sync", txPc |-> "idle", cursor |-> "undefined", added |-> <<>>,
   modified |-> <<>>, removed |-> <<>>, hasMore |-> FALSE, syncCalls |-> <<>>,
   pages |-> <<>>, txResponse |-> NoResponse]

\* A getAssetReportWithRetries invocation that has not started.
PollRunIdle ==
  [kind |-> "poll", pollPc |-> "none", maxAttempts |-> 0, retriesLeft |-> 0,
   promise |-> <<>>, getCalls |-> 0, attempts |-> <<>>, delays |-> <<>>]

\* router.get('/transactions'), invocation i, up to await AccessToken.findOne
RunGetTransactions(i) ==
  /\ runs[i].kind = "sync"
  /\ runs[i].txPc = "idle"
  /\ runs' = [runs EXCEPT ![i].txPc = "findOne"]
  /\ UNCHANGED <<syncVars, pollVars, consoleLog, cancel, linkVars>>

\* AccessToken.findOne resolved with a row for invocation i: its locals are
\* initialised and its first transactionsSync request is issued.
RunFindOneFound(i) ==
  /\ runs[i].kind = "sync"
  /\ runs[i].txPc = "findOne"
  /\ runs' = [runs EXCEPT ![i] =
                [@ EXCEPT !.cursor = NullCursor, !.added = <<>>, !.modified = <<>>,
                          !.removed = <<>>, !.hasMore = TRUE,
                          !.syncCalls = <<RequestCursor(NullCursor)>>,
                          !.txPc = "sync"]]
  /\ UNCHANGED <<syncVars, pollVars, consoleLog, cancel, linkVars>>

\* AccessToken.findOne resolved with null for invocation i
RunFindOneMissing(i) ==
  /\ runs[i].kind = "sync"
  /\ runs[i].txPc = "findOne"
  /\ runs' = [runs EXCEPT ![i].txResponse = ErrorHandlerResponse(NoAccessTokenError),
                          ![i].txPc = "error"]
  /\ consoleLog' = ErrorHandlerLog(consoleLog, NoAccessTokenError)
  /\ UNCHANGED <<syncVars, pollVars, cancel, linkVars>>

\* The loop body with added hoisted out of the handler (a module-level let,
\* as ACCESS_TOKEN is): both invocations append to the one array.
RunTransactionsSyncResolves_SharedAdded(i) ==
  /\ runs[i].kind = "sync"
  /\ runs[i].txPc = "sync"
  /\ Len(runs[i].pages) < MaxConcPages
  /\ \E data \in ConcPages :
       LET r == runs[i]
           newAdded == concat(r.added, data.added)
           more == NextHasMore(data)
           next == NextCursor(data)
       IN /\ runs' = [j \in Invocations |->
                       IF j = i
                         THEN [r EXCEPT
                                 !.pages = Append(r.pages, data),
                                 !.added = newAdded,
                                 !.modified = concat(r.modified, data.modified),
                                 !.removed = concat(r.removed, data.removed),
                                 !.hasMore = more,
                                 !.cursor = next,
                                 !.syncCalls = IF more THEN Append(@, RequestCursor(next))
                                                       ELSE @,
                                 !.txResponse =
                                    IF more THEN @
                                    ELSE [kind |-> "json",
                                          latest_transactions |-> recently_added(newAdded),
                                          error |-> <<>>],
                                 !.txPc = IF more THEN "sync" ELSE "done"]
                         ELSE [runs[j] EXCEPT !.added = newAdded]]
          /\ consoleLog' = prettyPrintResponse(consoleLog, [data |-> data])
  /\ UNCHANGED <<syncVars, pollVars, cancel, linkVars>>

\* await client.transactionsSync(request) resolved for invocation i: one
\* pass of its loop body up to its next await or its response.json.
RunTransactionsSyncResolves(i) ==
  /\ runs[i].kind = "sync"
  /\ runs[i].txPc = "sync"
  /\ Len(runs[i].pages) < MaxConcPages
  /\ \E data \in ConcPages :
       LET r == runs[i]
           newAdded == concat(r.added, data.added)
           more == NextHasMore(data)
           next == NextCursor(data)
       IN /\ runs' = [runs EXCEPT ![i] =
                       [r EXCEPT
                          !.pages = Append(r.pages, data),
                          !.added = newAdded,
                          !.modified = concat(r.modified, data.modified),
                          !.removed = concat(r.removed, data.removed),
                          !.hasMore = more,
                          !.cursor = next,
                          !.syncCalls = IF more THEN Append(@, RequestCursor(next))
                                                ELSE @,
                          !.txResponse =
                             IF more THEN @
                             ELSE [kind |-> "json",
                                   latest_transactions |-> recently_added(newAdded),
                                   error |-> <<>>],
                          !.txPc = IF more THEN "sync" ELSE "done"]]
          /\ consoleLog' = prettyPrintResponse(consoleLog, [data |-> data])
  /\ UNCHANGED <<syncVars, pollVars, cancel, linkVars>>

\* await client.transactionsSync(request) rejected for invocation i
RunTransactionsSyncRejects(i) ==
  /\ runs[i].kind = "sync"
  /\ runs[i].txPc = "sync"
  /\ \E error \in ClientErrors :
       /\ runs' = [runs EXCEPT ![i].txResponse = ErrorHandlerResponse(error),
                               ![i].txPc = "error"]
       /\ consoleLog' = ErrorHandlerLog(consoleLog, error)
  /\ UNCHANGED <<syncVars, pollVars, cancel, linkVars>>

\* getAssetReportWithRetries called for invocation i: its executor issues
\* the first assetReportGet.
RunPollStarts(i) ==
  /\ runs[i].kind = "poll"
  /\ runs[i].pollPc = "none"
  /\ \E r \in 1..MaxConcAttempts :
       runs' = [runs EXCEPT ![i] =
                  [@ EXCEPT !.maxAttempts = r, !.retriesLeft = r,
                            !.promise = <<Pending>>, !.getCalls = 1,
                            !.pollPc = "attempt"]]
  /\ UNCHANGED <<syncVars, pollVars, consoleLog, cancel, linkVars>>

\* assetReportGet resolved for invocation i: .then(resolve)
RunAssetReportGetResolves(i) ==
  /\ runs[i].kind = "poll"
  /\ runs[i].pollPc = "attempt"
  /\ \E report \in Reports :
       runs' = [runs EXCEPT ![i] =
                  [@ EXCEPT !.promise = ResolveChain(@, report),
                            !.attempts = Append(@, [outcome |-> "resolved",
                                                    value |-> <<report>>]),
                            !.pollPc = "settled"]]
  /\ UNCHANGED <<syncVars, pollVars, consoleLog, cancel, linkVars>>

\* assetReportGet rejected for invocation i: setTimeout is scheduled
RunAssetReportGetRejects(i) ==
  /\ runs[i].kind = "poll"
  /\ runs[i].pollPc = "attempt"
  /\ runs' = [runs EXCEPT ![i] =
                [@ EXCEPT !.attempts = Append(@, [outcome |-> "rejected",
                                                  value |-> <<>>]),
                          !.pollPc = "timer"]]
  /\ UNCHANGED <<syncVars, pollVars, consoleLog, cancel, linkVars>>

\* The setTimeout callback of invocation i runs.
RunTimerFires(i) ==
  /\ runs[i].kind = "poll"
  /\ runs[i].pollPc = "timer"
  /\ runs' = [runs EXCEPT ![i] =
                IF IsLastRetry(@.retriesLeft)
                  THEN [@ EXCEPT !.delays = Append(@, DefaultMs),
                                 !.promise = RejectInnermost(@, RanOutOfRetries),
                                 !.pollPc = "settled"]
                  ELSE [@ EXCEPT !.delays = Append(@, DefaultMs),
                                 !.promise = Append(@, Pending),
                                 !.retriesLeft = NestedRetries(@),
                                 !.getCalls = @ + 1,
                                 !.pollPc = "attempt"]]
  /\ UNCHANGED <<syncVars, pollVars, consoleLog, cancel, linkVars>>

\* Two /transactions requests, or two polls, under way together.
ConcInit ==
  /\ SyncIdle
  /\ PollIdle
  /\ cancel = NoCancel
  /\ LinkIdle
  /\ consoleLog = <<>>
  /\ runs \in { [i \in Invocations |-> SyncRunIdle],
                 [i \in Invocations |-> PollRunIdle] }

ConcNext ==
  \E i \in Invocations :
    \/ RunGetTransactions(i)
    \/ RunFindOneFound(i)
    \/ RunFindOneMissing(i)
    \/ RunTransactionsSyncResolves(i)
    \/ RunTransactionsSyncRejects(i)
    \/ RunPollStarts(i)
    \/ RunAssetReportGetResolves(i)
    \/ RunAssetReportGetRejects(i)
    \/ RunTimerFires(i)

SpecConcurrent == ConcInit /\ [][ConcNext]_vars

\* ------------------------------------------------------------- properties

\* The in-order concatenation of a sequence of sequences.
RECURSIVE Flatten(_)
Flatten(ss) == IF ss = <<>> THEN <<>> ELSE Head(ss) \o Flatten(Tail(ss))

PageAdded == [k \in 1..Len(pages) |-> pages[k].added]
PageModified == [k \in 1..Len(pages) |-> pages[k].modified]
PageRemoved == [k \in 1..Len(pages) |-> pages[k].removed]

\* The sync loop was left normally: the last page answered has
\* has_more = false and every page before it has_more = true.
DrainedRun ==
  /\ txPc = "done"
  /\ Len(pages) >= 1
  /\ ~pages[Len(pages)].has_more
  /\ \A k \in 1..(Len(pages) - 1) : pages[k].has_more

ErrorKinds == {"error_json", "http500"}

\* C1: when a run of N >= 1 pages ends with the first has_more = false page
\* and no fetch failed, exactly N transactionsSync calls were issued and the
\* three accumulators are the in-order concatenations of the pages' added,
\* modified and removed sequences.
C1_SyncConcatenatesPages ==
  txPc = "done" =>
    /\ DrainedRun
    /\ Len(syncCalls) = Len(pages)
    /\ added = Flatten(PageAdded)
    /\ modified = Flatten(PageModified)
    /\ removed = Flatten(PageRemoved)

\* The three-page scenario: added [A, B], then modified [A], then removed [B].
C1_Witness ==
  /\ txPc = "done"
  /\ Len(pages) = 3
  /\ PageAdded = << <<TxA, TxB>>, <<>>, <<>> >>
  /\ PageModified = << <<>>, <<TxA>>, <<>> >>
  /\ PageRemoved = << <<>>, <<>>, <<RefB>> >>
  /\ added = <<TxA, TxB>>
  /\ modified = <<TxA>>
  /\ removed = <<RefB>>

\* C2: the first transactionsSync call carries the start cursor (null), call
\* k+1 carries exactly the next_cursor of the answer to call k, and the
\* cursor variable holds nothing but the start cursor or the latest
\* next_cursor.
C2_CursorChain ==
  /\ syncCalls # <<>> => syncCalls[1] = NullCursor
  /\ \A k \in 1..Len(pages) :
       k + 1 <= Len(syncCalls) => syncCalls[k + 1] = pages[k].next_cursor
  /\ txPc \in {"sync", "done", "error"} /\ syncCalls # <<>> =>
       cursor = IF pages = <<>> THEN NullCursor ELSE pages[Len(pages)].next_cursor

\* Cursor progression null -> c1 -> c2 -> c3 over three pages.
C2_Witness ==
  /\ txPc = "done"
  /\ syncCalls = <<NullCursor, "c1", "c2">>
  /\ cursor = "c3"

\* C3: a transactionsSync call that fails ends the sync in an error sent to
\* the caller, and from then on no transactionsSync call is issued: the
\* failed call is the last one.
C3_FetchFailureAborts ==
  [][ /\ (txPc = "sync" /\ txPc' # "sync" /\ pages' = pages) =>
           /\ txPc' = "error"
           /\ txResponse'.kind \in ErrorKinds
           /\ syncCalls' = syncCalls
      /\ (txPc = "sync" /\ pages' = pages) => txPc' # "sync"
      /\ txPc = "error" => (txPc' = "error" /\ syncCalls' = syncCalls) ]_vars

\* The second page's fetch failed after one page was merged.
C3_Witness ==
  /\ txPc = "error"
  /\ Len(pages) = 1
  /\ Len(syncCalls) = 2
  /\ txResponse.kind = "error_json"

\* C4: transactions reach the caller only from a run that reached a page
\* with has_more = false; a run ended by a failed fetch sends an error and
\* none of the transactions accumulated so far.
C4_AllOrNothing ==
  /\ (txResponse.kind = "json" \/ txResponse.latest_transactions # <<>>) =>
       /\ DrainedRun
       /\ txResponse.latest_transactions = recently_added(Flatten(PageAdded))
  /\ txPc = "error" =>
       /\ txResponse.kind \in ErrorKinds
       /\ txResponse.latest_transactions = <<>>

\* A fetch failed after pages with transactions had been merged.
C4_Witness ==
  /\ txPc = "error"
  /\ Len(pages) = 2
  /\ added # <<>>
  /\ txResponse.latest_transactions = <<>>

\* The code has raised the exhaustion failure: the innermost promise of the
\* poll is rejected.
Exhausted ==
  /\ pollPc = "settled"
  /\ promise[Len(promise)].state = "rejected"

\* Every assetReportGet call answered so far was rejected.
AllAttemptsFailed == \A k \in 1..Len(attempts) : attempts[k].outcome = "rejected"

\* The latest assetReportGet call answered was resolved.
Succeeded ==
  /\ attempts # <<>>
  /\ attempts[Len(attempts)].outcome = "resolved"

\* C5: when all maxAttempts attempts have failed and the exhaustion failure
\* is raised, the promise the top-level caller awaits is rejected and the
\* caller's error path runs (it is not left pending).
C5_ExhaustionReachesCaller ==
  Exhausted =>
    /\ promise[1].state = "rejected"
    /\ assetsPc = "error"

\* C6: when attempts 1..M-1 fail and attempt M (M = maxAttempts) succeeds,
\* the top-level caller receives attempt M's value and exactly M-1 delays,
\* each of length ms, were incurred.
C6_SuccessOnLastAttempt ==
  (/\ Len(attempts) = maxAttempts
   /\ Succeeded
   /\ \A k \in 1..(maxAttempts - 1) : attempts[k].outcome = "rejected") =>
    /\ promise[1].state = "fulfilled"
    /\ promise[1].value = attempts[maxAttempts].value
    /\ getResponse = attempts[maxAttempts].value
    /\ assetsPc \in {"pdf", "done", "error"}
    /\ delays = [k \in 1..(maxAttempts - 1) |-> ms]

\* maxAttempts = 3, delay 1000: fail, fail, succeed(42) gives 42 after two
\* delays.
C6_Witness ==
  /\ maxAttempts = 3
  /\ ms = DefaultMs
  /\ Len(attempts) = 3
  /\ attempts[1].outcome = "rejected"
  /\ attempts[2].outcome = "rejected"
  /\ attempts[3] = [outcome |-> "resolved", value |-> <<42>>]
  /\ getResponse = <<42>>
  /\ delays = <<DefaultMs, DefaultMs>>

\* C7: when all maxAttempts attempts have failed, exactly maxAttempts - 1
\* delays have elapsed when the exhaustion failure is raised (none after
\* the final failed attempt; zero for maxAttempts = 1).
C7_NoDelayAfterFinalFailure ==
  Exhausted => Len(delays) = maxAttempts - 1

\* C8: a poll started with maxAttempts = M never makes more than M
\* assetReportGet calls, and has made exactly M when it ends with every
\* attempt failed.
C8_AttemptsBounded ==
  /\ getCalls <= maxAttempts
  /\ Len(attempts) <= getCalls
  /\ (pollPc = "settled" /\ AllAttemptsFailed) =>
       (getCalls = maxAttempts /\ Len(attempts) = maxAttempts)

\* Three attempts out of three failed and the poll ended.
C8_Witness ==
  /\ Exhausted
  /\ AllAttemptsFailed
  /\ maxAttempts = 3
  /\ getCalls = 3

\* C10: once an attempt has succeeded the poll has returned that attempt's
\* result, and from then on no assetReportGet call is made and no timer is
\* started or fires.
C10_SuccessEndsPoll ==
  [][ /\ Succeeded' =>
           /\ pollPc' = "settled"
           /\ promise'[1].state = "fulfilled"
           /\ promise'[1].value = attempts'[Len(attempts')].value
           /\ getResponse' = attempts'[Len(attempts')].value
      /\ Succeeded =>
           /\ getCalls' = getCalls
           /\ attempts' = attempts
           /\ delays' = delays
           /\ pollPc' = pollPc ]_vars

\* The second attempt succeeded and the route went on to its response.
C10_Witness ==
  /\ Succeeded
  /\ assetsPc = "done"
  /\ getCalls = 2
  /\ Len(delays) = 1
  /\ assetsResponse.kind = "json"

\* C11: a cancellation signalled while the poll waits in its inter-attempt
\* delay aborts the poll before the next attempt: no assetReportGet call is
\* issued after it, and the poll ends neither in the exhaustion failure nor
\* in a success.
C11_CancelDuringDelayAborts ==
  (cancel.signalled /\ cancel.during = "timer") =>
    /\ getCalls = cancel.calls
    /\ ~Exhausted
    /\ ~Succeeded

\* The messages of the errors the attempts can fail with.
AttemptErrorMessages == {e.message : e \in ClientErrors}

\* C12: when the final permitted attempt fails, the failure the poll raises
\* is the one 'retries exhausted' value, whatever error the attempts failed
\* with, and never an attempt's own error; no promise of the poll is ever
\* rejected with anything else.
C12_ExhaustionErrorIsDistinct ==
  /\ \A k \in 1..Len(promise) :
       promise[k].state = "rejected" => promise[k].reason = <<RanOutOfRetries>>
  /\ Exhausted =>
       /\ promise[Len(promise)].reason = <<RanOutOfRetries>>
       /\ promise[Len(promise)].reason[1] \notin AttemptErrorMessages
       /\ promise[Len(promise)].reason[1] # attemptError[1].message

\* The last of two attempts failed with a transport error, the one before
\* it having failed too; the poll raised the exhaustion failure.
C12_Witness ==
  /\ Exhausted
  /\ maxAttempts = 2
  /\ Len(attempts) = 2
  /\ attemptError[1].message = "socket hang up"
  /\ promise[2].reason = <<RanOutOfRetries>>

\* The number of requests a sync alone issues after its first one, given
\* the pages it was answered: one per page with has_more = true.
FollowUpCalls(ps) ==
  IF ps = <<>> THEN 0
  ELSE IF ps[Len(ps)].has_more THEN Len(ps) ELSE Len(ps) - 1

\* The locals and the outcome of sync invocation r are those of a sync run
\* alone against the pages r was answered.
SyncRunAlone(r) ==
  IF r.syncCalls = <<>>
    THEN /\ r.pages = <<>>
         /\ r.added = <<>> /\ r.modified = <<>> /\ r.removed = <<>>
         /\ r.txResponse.kind \in {"none", "http500"}
    ELSE /\ r.added = Flatten([k \in 1..Len(r.pages) |-> r.pages[k].added])
         /\ r.modified = Flatten([k \in 1..Len(r.pages) |-> r.pages[k].modified])
         /\ r.removed = Flatten([k \in 1..Len(r.pages) |-> r.pages[k].removed])
         /\ r.cursor = IF r.pages = <<>> THEN NullCursor
                                         ELSE r.pages[Len(r.pages)].next_cursor
         /\ r.syncCalls = <<NullCursor>> \o
                            [k \in 1..FollowUpCalls(r.pages) |-> r.pages[k].next_cursor]
         /\ \A k \in 1..(Len(r.pages) - 1) : r.pages[k].has_more
         /\ r.txPc = "done" <=> (r.pages # <<>> /\ ~r.pages[Len(r.pages)].has_more)
         /\ r.txPc = "done" =>
              r.txResponse = [kind |-> "json",
                              latest_transactions |->
                                recently_added(Flatten([k \in 1..Len(r.pages) |->
                                                          r.pages[k].added])),
                              error |-> <<>>]
         /\ r.txPc = "sync" => r.txResponse = NoResponse
         /\ r.txPc = "error" => r.txResponse.kind \in ErrorKinds

\* The number of attempts of poll invocation r that failed.
FailedAttempts(r) ==
  Cardinality({k \in 1..Len(r.attempts) : r.attempts[k].outcome = "rejected"})

\* The budget, the counters and the outcome of poll invocation r are those
\* of a poll run alone against the attempt outcomes r met.
PollRunAlone(r) ==
  r.pollPc # "none" =>
    /\ r.getCalls = Len(r.attempts) + (IF r.pollPc = "attempt" THEN 1 ELSE 0)
    /\ Len(r.delays) = FailedAttempts(r) - (IF r.pollPc = "timer" THEN 1 ELSE 0)
    /\ r.retriesLeft = r.maxAttempts - (r.getCalls - 1)
    /\ r.retriesLeft >= 1
    /\ Len(r.promise) = r.getCalls
    /\ (r.attempts # <<>> /\ r.attempts[Len(r.attempts)].outcome = "resolved") =>
         /\ r.pollPc = "settled"
         /\ r.promise[1].state = "fulfilled"
         /\ r.promise[1].value = r.attempts[Len(r.attempts)].value
    /\ (r.pollPc = "settled" /\ FailedAttempts(r) = Len(r.attempts)) =>
         /\ Len(r.attempts) = r.maxAttempts
         /\ r.promise[Len(r.promise)].state = "rejected"

\* C13: under every interleaving of two syncs, or of two polls, each
\* invocation's cursor sequence, accumulated result, remaining budget and
\* outcome are those it produces when run alone against the same page or
\* attempt outcomes.
C13_InvocationsIndependent ==
  \A i \in DOMAIN runs :
    IF runs[i].kind = "sync" THEN SyncRunAlone(runs[i]) ELSE PollRunAlone(runs[i])

\* Two syncs of two pages each finished, their pages having arrived
\* alternately (as the shared console shows) and with different contents.
C13_Witness ==
  /\ DOMAIN runs = Invocations
  /\ runs[1].kind = "sync"
  /\ runs[1].txPc = "done" /\ runs[2].txPc = "done"
  /\ Len(runs[1].pages) = 2 /\ Len(runs[2].pages) = 2
  /\ runs[1].added # runs[2].added
  /\ runs[1].syncCalls # runs[2].syncCalls
  /\ consoleLog = <<runs[1].pages[1], runs[2].pages[1], runs[1].pages[2], runs[2].pages[2]>>

\* C14: within one invocation at most one transactionsSync or assetReportGet
\* call is in flight; call N+1 of a sync is issued only when pages 1..N have
\* been merged into the accumulators; attempt K+1 of a poll is issued only
\* when attempt K has failed and a timer of ms has fired since.
C14_StrictlySequential ==
  /\ Len(pages) <= Len(syncCalls)
  /\ Len(syncCalls) <= Len(pages) + 1
  /\ Len(syncCalls) = Len(pages) + 1 =>
       /\ added = Flatten(PageAdded)
       /\ modified = Flatten(PageModified)
       /\ removed = Flatten(PageRemoved)
  /\ Len(attempts) <= getCalls
  /\ getCalls <= Len(attempts) + 1
  /\ getCalls = Len(attempts) + 1 <=> pollPc = "attempt"
  /\ \A k \in 1..(getCalls - 1) :
       /\ attempts[k].outcome = "rejected"
       /\ Len(delays) >= k
       /\ delays[k] = ms

\* The third attempt of a poll is in flight after two failures and two
\* delays.
C14_Witness ==
  /\ pollPc = "attempt"
  /\ getCalls = 3
  /\ Len(attempts) = 2
  /\ delays = <<ms, ms>>

\* C15: during a poll started with maxAttempts >= 1 the remaining budget
\* retriesLeft is never negative and never grows; it changes only when the
\* timer set by a failed attempt leads to the next attempt, and then by
\* exactly one.
C15_BudgetOnlyDecrements ==
  [][ /\ retriesLeft' >= 0
      /\ pollPc # "none" =>
           \/ retriesLeft' = retriesLeft
           \/ /\ retriesLeft' = retriesLeft - 1
              /\ pollPc = "timer"
              /\ attempts[Len(attempts)].outcome = "rejected"
      /\ (pollPc = "timer" /\ pollPc' = "attempt") =>
           retriesLeft' = retriesLeft - 1 ]_vars

\* The third attempt of a poll started with three: the budget went 3, 2, 1.
C15_Witness ==
  /\ maxAttempts = 3
  /\ retriesLeft = 1
  /\ pollPc = "attempt"
  /\ Len(attempts) = 2

NumbersIn(text) ==
  IF text = "Request failed with status code 400" THEN {400} ELSE {}

\* C17: the exhaustion failure of a poll whose maxAttempts attempts all
\* failed carries the number of attempts made, maxAttempts.
C17_ExhaustionCarriesCount ==
  Exhausted => maxAttempts \in NumbersIn(promise[Len(promise)].reason[1])

\* The number of occurrences of t in the sequence s.
Count(s, t) == Cardinality({i \in 1..Len(s) : s[i] = t})

Elements(s) == {s[i] : i \in 1..Len(s)}

\* C18: after a complete sync latest_transactions holds min(8, |added|)
\* transactions taken from added (duplicates kept), in ascending date
\* order, each dated no earlier than every added transaction left out, and
\* added itself is unchanged.
C18_LatestTransactions ==
  txPc = "done" =>
    LET latest == txResponse.latest_transactions
        all == Flatten(PageAdded)
    IN /\ Len(latest) = IF Len(all) < RecentWindow THEN Len(all) ELSE RecentWindow
       /\ \A i \in 1..(Len(latest) - 1) : latest[i].date <= latest[i + 1].date
       /\ \A t \in Elements(latest) : Count(latest, t) <= Count(all, t)
       /\ \A t \in Elements(all) :
            Count(latest, t) < Count(all, t) =>
              \A i \in 1..Len(latest) : latest[i].date >= t.date
       /\ added = all

\* Ten transactions were added, two of them twice over; the eight latest
\* are returned, duplicates included, and the two oldest are left out.
C18_Witness ==
  /\ txPc = "done"
  /\ added = <<TxC, TxA, TxB, TxD, TxA, TxC, TxA, TxB, TxD, TxA>>
  /\ txResponse.latest_transactions = <<TxA, TxA, TxA, TxA, TxC, TxC, TxD, TxD>>

\* C19: the three accumulators are empty when the loop is entered, and every
\* step of the loop either leaves them alone or extends each one by the
\* fetched page's corresponding sequence: nothing is removed or replaced.
C19_AccumulatorsOnlyAppend ==
  [][ /\ (txPc = "findOne" /\ txPc' = "sync") =>
           (added' = <<>> /\ modified' = <<>> /\ removed' = <<>>)
      /\ txPc = "sync" =>
           IF pages' # pages
             THEN LET page == pages'[Len(pages')]
                  IN /\ added' = added \o page.added
                     /\ modified' = modified \o page.modified
                     /\ removed' = removed \o page.removed
             ELSE UNCHANGED <<added, modified, removed>> ]_vars

\* Two pages, each with something added, modified and removed, have been
\* merged: every accumulator holds the first page's part, then the second's.
C19_Witness ==
  /\ txPc = "sync"
  /\ Len(pages) = 2
  /\ \A k \in 1..2 : pages[k].added # <<>> /\ pages[k].modified # <<>>
                       /\ pages[k].removed # <<>>
  /\ added = pages[1].added \o pages[2].added
  /\ modified = pages[1].modified \o pages[2].modified
  /\ removed = pages[1].removed \o pages[2].removed

\* C20: a request that finds no stored access token issues no
\* transactionsSync call, receives no page and gets no latest_transactions
\* response; it ends in the error response.
C20_NoTokenNoSync ==
  token = "undefined" =>
    /\ syncCalls = <<>>
    /\ pages = <<>>
    /\ txResponse.kind # "json"
    /\ txResponse.latest_transactions = <<>>
    /\ txPc \in {"idle", "findOne", "error"}
    /\ txPc = "error" => txResponse.kind \in ErrorKinds

\* The lookup returned no token and the request ended in the error response
\* without a single transactionsSync call.
C20_Witness ==
  /\ txPc = "error"
  /\ token = "undefined"
  /\ syncCalls = <<>>
  /\ txResponse.kind = "http500"

\* Some promise of the poll's chain has been rejected.
ExhaustionReported ==
  \E k \in 1..Len(promise) : promise[k].state = "rejected"

\* C21: a promise of the chain is rejected only by the timer of a failed
\* attempt whose budget is exactly 1.  A poll started with a budget of 0 or
\* less never reports exhaustion: its budget is the starting budget less
\* the retries made, and every timer of a failed attempt issues the next
\* attempt with the budget one lower, below zero.
C21_NonPositiveBudgetNeverExhausts ==
  /\ [](maxAttempts <= 0 /\ promise # <<>> =>
          /\ ~ExhaustionReported
          /\ unhandled = <<>>
          /\ retriesLeft = maxAttempts - (getCalls - 1)
          /\ AllAttemptsFailed => pollPc \in {"attempt", "timer"}
          /\ AllAttemptsFailed => assetsPc = "poll")
  /\ [][/\ (~ExhaustionReported /\ ExhaustionReported') =>
               (pollPc = "timer" /\ retriesLeft = 1 /\ AllAttemptsFailed)
        /\ (pollPc = "timer" /\ maxAttempts <= 0 /\ pollPc' # pollPc) =>
               /\ pollPc' = "attempt"
               /\ getCalls' = getCalls + 1
               /\ retriesLeft' = retriesLeft - 1
               /\ retriesLeft' < 0 ]_vars

\* A poll started with a budget of 0 has failed three times and has its
\* fourth attempt in flight with a budget of -3; nothing has been rejected.
C21_Witness ==
  /\ maxAttempts = 0
  /\ Len(attempts) = 3
  /\ AllAttemptsFailed
  /\ getCalls = 4
  /\ retriesLeft = -3
  /\ pollPc = "attempt"
  /\ ~ExhaustionReported

\* The state objects dispatched by the step being taken.
NewDispatches == SubSeq(dispatched', Len(dispatched) + 1, Len(dispatched'))

\* The step being taken dispatches isItemAccess: v.
SetsItemAccess(v) ==
  \E k \in 1..Len(NewDispatches) : NewDispatches[k].isItemAccess = <<v>>

\* C22: a step of the Link component dispatches isItemAccess: true only when
\* the exchange request it sent has been answered with an OK response whose
\* body has been read; an answer that is not OK dispatches isItemAccess:
\* false; a success under payment initiation dispatches isItemAccess: false
\* and sends no request; a success without a stored token sends no request,
\* dispatches nothing and pushes no history entry.
C22_ItemAccessFollowsExchange ==
  [][/\ SetsItemAccess(TRUE) =>
          /\ linkPc = "json"
          /\ Len(exchangeResponses) = Len(exchangeRequests)
          /\ exchangeResponses # <<>>
          /\ exchangeResponses[Len(exchangeResponses)].ok
          /\ ~SetsItemAccess(FALSE)
     /\ exchangeResponses' # exchangeResponses =>
          LET response == exchangeResponses'[Len(exchangeResponses')]
          IN (response.status # 0 /\ ~response.ok) =>
               (SetsItemAccess(FALSE) /\ ~SetsItemAccess(TRUE))
     /\ linkCalls' # linkCalls =>
          LET call == linkCalls'[Len(linkCalls')]
          IN IF call.token \in {NullToken, ""}
               THEN UNCHANGED <<exchangeRequests, dispatched, pushed>>
               ELSE IF call.isPaymentInitiation
                      THEN /\ UNCHANGED exchangeRequests
                           /\ SetsItemAccess(FALSE)
                           /\ ~SetsItemAccess(TRUE)
                      ELSE /\ Len(exchangeRequests') = Len(exchangeRequests) + 1
                           /\ ~SetsItemAccess(TRUE)
                           /\ ~SetsItemAccess(FALSE) ]_vars

\* Link succeeded twice: first under payment initiation (isItemAccess: false,
\* no request), then with an exchange answered OK, after which isItemAccess:
\* true was dispatched.
C22_Witness ==
  /\ linkPc = "done"
  /\ Len(linkCalls) = 2
  /\ linkCalls[1].isPaymentInitiation
  /\ ~linkCalls[2].isPaymentInitiation
  /\ Len(exchangeRequests) = 1
  /\ exchangeResponses = <<[status |-> 200, ok |-> TRUE]>>
  /\ dispatched[1].isItemAccess = <<FALSE>>
  /\ dispatched[Len(dispatched)].isItemAccess = <<TRUE>>

\* C9: without a failed fetch the loop is left exactly at the first page
\* with has_more = false, after which no call is issued; as long as every
\* page answered so far has has_more = true the next call is in flight.
C9_TerminatesIffNoMore ==
  /\ txPc = "done" => (DrainedRun /\ Len(syncCalls) = Len(pages))
  /\ (txPc \in {"sync", "done"} /\ \A k \in 1..Len(pages) : pages[k].has_more) =>
       (txPc = "sync" /\ Len(syncCalls) = Len(pages) + 1)
  /\ (txPc \in {"sync", "done"} /\ \E k \in 1..Len(pages) : ~pages[k].has_more) =>
       txPc = "done"

\* Every page answered has has_more = true and one more call is in flight.
C9_Witness ==
  /\ txPc = "sync"
  /\ Len(pages) = MaxPages
  /\ \A k \in 1..Len(pages) : pages[k].has_more
  /\ Len(syncCalls) = MaxPages + 1

====
